---------------------------- MODULE Spec2Model ----------------------------
(***************************************************************************)
(* wled-audio-server: capture callback -> bounded queue -> consumer loop   *)
(* (DspProcessor::push_samples -> AudioSyncPacketV2::to_bytes ->           *)
(* UdpSender::send).                                                       *)
(*                                                                         *)
(* Representation of the Rust values:                                      *)
(*  - a byte array is a sequence; the byte at offset k is element k+1;     *)
(*  - an f32 is its IEEE-754 bit pattern, the record                       *)
(*    [sign |-> 0..1, exp |-> 0..255, mant |-> 0..2^23-1] (the 32-bit     *)
(*    pattern itself does not fit TLC's integers);                         *)
(*  - an Ipv4Addr is its four octets <<a, b, c, d>>, a SocketAddr the     *)
(*    record [ip, port];                                                   *)
(*  - an audio sample is an integer number of 1/SampleUnit (2^-20), the      *)
(*    levels computed from samples are in the same unit.                   *)
(*  - an FFT magnitude is a whole number; band values and the AGC bounds  *)
(*    are integer numbers of 1/BinUnit (0.001); frequencies are in 1/100   *)
(*    Hz.  The FFT itself is not computed: the magnitudes of a window are  *)
(*    an input of the model.                                               *)
(*  - a panic of process_frame is the state panicked = TRUE, after which   *)
(*    no step of the processor's thread is possible.                       *)
(***************************************************************************)
EXTENDS Integers, Sequences, FiniteSets

VARIABLES
    \* --- capture side (audio.rs) and the consumer loop (main.rs) ---
    queue,          \* sync_channel(AUDIO_CHANNEL_SIZE): chunks in flight
    drop_counter,   \* Arc<AtomicU64>
    channels,       \* config.channels()
    running,        \* Arc<AtomicBool> set false by the Ctrl+C handler
    pc,             \* position of the consumer loop of main
    frames,         \* frames of the current chunk not yet handed to send
    captured,       \* history: number of callback invocations
    captured_frames,\* history: number of frames the callback was given
    received,       \* history: chunks recv_timeout delivered
    handed,         \* history: frames handed to UdpSender::send
    connected,      \* the callback, and with it the SyncSender, is alive
    recvs_after_stop,   \* history: recv_timeout calls that returned after
                        \* the running flag was cleared
    \* --- DspProcessor (dsp.rs) ---
    sample_rate,    \* DspProcessor.sample_rate
    buffer,         \* DspProcessor.buffer
    bin_edges,      \* DspProcessor.bin_edges
    agc_min,        \* DspProcessor.agc_min
    agc_max,        \* DspProcessor.agc_max
    sample_smth,    \* DspProcessor.sample_smth
    beat_history,   \* DspProcessor.beat_history
    beat_idx,       \* DspProcessor.beat_idx
    beat_freq_lo,   \* DspProcessor.beat_freq_lo
    beat_freq_hi,   \* DspProcessor.beat_freq_hi
    panicked,       \* a call of the processor panicked: the process is gone
    pushed,         \* history: the chunks pushed so far, in order, each as
                    \* its place in the stream, its length and its amplitude
    last_windows,   \* history: the windows the last push_samples processed
    last_fx,        \* history: the FFT magnitudes of the last push_samples
    pushes,         \* history: number of push_samples calls so far
    total_pushed,   \* history: number of samples pushed so far
    frames_total,   \* history: number of frames returned so far
    last_frames,    \* return value of the last push_samples
    \* --- AudioSyncPacketV2 (packet.rs) ---
    pkt,            \* <<p>>: the last packet given to to_bytes (<<>> before)
    bytes,          \* result of the last to_bytes (<<>> before the first)
    decoded,        \* <<d>>: what the receiver read from bytes (<<>> before)
    \* --- UdpSender (packet.rs) ---
    if_addrs,       \* result of get_if_addrs() at construction
    args_target,    \* args.target handed to UdpSender::new by main
    port,           \* args.port
    targets,        \* UdpSender.targets
    frame_counter,  \* UdpSender.frame_counter
    attempts,       \* history: send_to calls of the last send
    result,         \* return value of the last send ("none" before)
    ok_sends,       \* history: number of send calls that returned Ok
    err_sends       \* history: number of send calls that returned Err

captureVars == <<queue, drop_counter, channels, running, pc, frames,
                 captured, captured_frames, received, handed, connected,
                 recvs_after_stop>>
dspVars == <<sample_rate, buffer, bin_edges, agc_min, agc_max, sample_smth,
             beat_history, beat_idx, beat_freq_lo, beat_freq_hi, panicked,
             pushed, last_windows, last_fx, pushes, total_pushed,
             frames_total, last_frames>>
codecVars == <<pkt, bytes, decoded>>
senderVars == <<if_addrs, args_target, port, targets, frame_counter,
                attempts, result, ok_sends, err_sends>>
vars == <<captureVars, dspVars, codecVars, senderVars>>

-----------------------------------------------------------------------------
(* Program constants *)

FFT_SIZE == 2048
HOP_SIZE == 1024
NUM_BINS == 16
AUDIO_CHANNEL_SIZE == 8
PACKET_LEN == 44

-----------------------------------------------------------------------------
(* Generic helpers *)

Range(s) == {s[i] : i \in 1..Len(s)}

Min(a, b) == IF a < b THEN a ELSE b

Abs(x) == IF x < 0 THEN -x ELSE x

\* All orderings of a finite set as duplicate-free sequences.
Orderings(S) ==
    {s \in [1..Cardinality(S) -> S] : \A i, j \in 1..Cardinality(S) : s[i] = s[j] => i = j}

\* s[lo] + ... + s[hi].
RECURSIVE SumFrom(_, _, _)
SumFrom(s, lo, hi) == IF lo > hi THEN 0 ELSE s[lo] + SumFrom(s, lo + 1, hi)

-----------------------------------------------------------------------------
(* packet.rs: AudioSyncPacketV2::to_bytes *)

\* A byte-order slip: the same four bytes, most significant first.
f32_to_be_bytes(x) ==
    << x.sign * 128 + (x.exp \div 2),
       (x.exp % 2) * 128 + (x.mant \div 65536),
       (x.mant \div 256) % 256,
       x.mant % 256 >>

\* f32::to_le_bytes on the bit pattern sign(1) exp(8) mant(23).
f32_to_le_bytes(x) ==
    << x.mant % 256,
       (x.mant \div 256) % 256,
       (x.exp % 2) * 128 + (x.mant \div 65536),
       x.sign * 128 + (x.exp \div 2) >>

\* u16::to_le_bytes.
u16_to_le_bytes(v) == << v % 256, v \div 256 >>

\* buf with the first k elements of src written from zero-based offset lo on.
RECURSIVE copy_prefix(_, _, _, _)
copy_prefix(buf, lo, src, k) ==
    IF k = 0 THEN buf
    ELSE copy_prefix([buf EXCEPT ![lo + k] = src[k]], lo, src, k - 1)

\* buf[lo .. lo + src.len()].copy_from_slice(src), lo a zero-based offset.
copy_from_slice(buf, lo, src) == copy_prefix(buf, lo, src, Len(src))

\* buf[off] = b, off a zero-based offset.
set_byte(buf, off, b) == [buf EXCEPT ![off + 1] = b]

\* The slip of writing samplePeak and frameCounter at each other's offset.
to_bytes_swapped(self, fc) ==
    LET b0 == [i \in 1..PACKET_LEN |-> 0]
        b1 == copy_from_slice(b0, 0, <<48, 48, 48, 48, 50, 0>>)
        b2 == copy_from_slice(b1, 8, f32_to_le_bytes(self.sample_raw))
        b3 == copy_from_slice(b2, 12, f32_to_le_bytes(self.sample_smth))
        b4 == set_byte(b3, 17, self.sample_peak)
        b5 == set_byte(b4, 16, fc)
        b6 == copy_from_slice(b5, 18, self.fft_result)
        b7 == copy_from_slice(b6, 34, u16_to_le_bytes(self.zero_crossing_count))
        b8 == copy_from_slice(b7, 36, f32_to_le_bytes(self.fft_magnitude))
    IN  copy_from_slice(b8, 40, f32_to_le_bytes(self.fft_major_peak))

\* AudioSyncPacketV2::to_bytes(&self, frame_counter).
to_bytes(self, fc) ==
    LET b0 == [i \in 1..PACKET_LEN |-> 0]
        \* header "00002\0": b'0' = 48, b'2' = 50
        b1 == set_byte(set_byte(set_byte(set_byte(set_byte(set_byte(b0,
                  0, 48), 1, 48), 2, 48), 3, 48), 4, 50), 5, 0)
        b2 == copy_from_slice(b1, 8, f32_to_le_bytes(self.sample_raw))
        b3 == copy_from_slice(b2, 12, f32_to_le_bytes(self.sample_smth))
        b4 == set_byte(b3, 16, self.sample_peak)
        b5 == set_byte(b4, 17, fc)
        b6 == copy_from_slice(b5, 18, self.fft_result)
        b7 == copy_from_slice(b6, 34, u16_to_le_bytes(self.zero_crossing_count))
        b8 == copy_from_slice(b7, 36, f32_to_le_bytes(self.fft_magnitude))
    IN  copy_from_slice(b8, 40, f32_to_le_bytes(self.fft_major_peak))

-----------------------------------------------------------------------------
(* bin/test_receiver.rs: decoding a received packet *)

\* f32::from_le_bytes([b0, b1, b2, b3]).
f32_from_le_bytes(b) ==
    [sign |-> b[4] \div 128,
     exp  |-> (b[4] % 128) * 2 + (b[3] \div 128),
     mant |-> b[1] + 256 * b[2] + 65536 * (b[3] % 128)]

\* u16::from_le_bytes([b0, b1]).
u16_from_le_bytes(b) == b[1] + 256 * b[2]

\* buf[lo..hi] with zero-based offsets, hi exclusive.
slice(buf, lo, hi) == SubSeq(buf, lo + 1, hi)

\* The receiver's reading of a 44-byte packet at the documented offsets.
decode(buf) ==
    [sample_raw          |-> f32_from_le_bytes(slice(buf, 8, 12)),
     sample_smth         |-> f32_from_le_bytes(slice(buf, 12, 16)),
     sample_peak         |-> buf[16 + 1],
     frame_counter       |-> buf[17 + 1],
     fft_result          |-> [i \in 1..NUM_BINS |-> buf[18 + i]],
     zero_crossing_count |-> u16_from_le_bytes(slice(buf, 34, 36)),
     fft_magnitude       |-> f32_from_le_bytes(slice(buf, 36, 40)),
     fft_major_peak      |-> f32_from_le_bytes(slice(buf, 40, 44))]

-----------------------------------------------------------------------------
(* dsp.rs: DspFrame, DspProcessor *)

\* One sample of amplitude 1.0; samples and levels are integers in this unit.
SampleUnit == 1048576

\* SILENCE_THRESHOLD = 0.00001 as the fraction 1 / SILENCE_THRESHOLD_INV.
SILENCE_THRESHOLD_INV == 100000

\* SAMPLE_SMOOTH_FACTOR = 0.7 as the fraction SMOOTH_NUM / SMOOTH_DEN.
SMOOTH_NUM == 7
SMOOTH_DEN == 10

\* Position of the highest set bit of n > 0.
RECURSIVE HighBit(_)
HighBit(n) == IF n < 2 THEN 0 ELSE 1 + HighBit(n \div 2)

RECURSIVE Pow2(_)
Pow2(k) == IF k = 0 THEN 1 ELSE 2 * Pow2(k - 1)

\* The f32 holding the value n / SampleUnit, n >= 0 (round to nearest, ties
\* to even): the representation of a level as the f32 field of a DspFrame.
f32_of(n) ==
    IF n = 0 THEN [sign |-> 0, exp |-> 0, mant |-> 0]
    ELSE LET p == HighBit(n)
             e == p - HighBit(SampleUnit) + 127
         IN  IF p <= 23
             THEN [sign |-> 0, exp |-> e, mant |-> (n - Pow2(p)) * Pow2(23 - p)]
             ELSE LET sh == p - 23
                      q  == n \div Pow2(sh)
                      r  == n % Pow2(sh)
                      up == (2 * r > Pow2(sh)) \/ (2 * r = Pow2(sh) /\ q % 2 = 1)
                      m  == IF up THEN q + 1 ELSE q
                  IN  IF m = Pow2(24)
                      THEN [sign |-> 0, exp |-> e + 1, mant |-> 0]
                      ELSE [sign |-> 0, exp |-> e, mant |-> m - Pow2(23)]

F32_ZERO == [sign |-> 0, exp |-> 0, mant |-> 0]

\* max_abs < SILENCE_THRESHOLD for max_abs an integer number of 1/SampleUnit:
\* m / SampleUnit < 1 / INV  <=>  m < ceil(SampleUnit / INV).
below_silence_threshold(max_abs) ==
    max_abs < (SampleUnit + SILENCE_THRESHOLD_INV - 1) \div SILENCE_THRESHOLD_INV

\* The statistics pass of process_frame: maximum absolute sample.
max_abs_of(samples) ==
    LET A == {Abs(samples[i]) : i \in 1..Len(samples)}
    IN  IF A = {} THEN 0 ELSE CHOOSE m \in A : \A a \in A : a <= m

\* The statistics pass of process_frame: sign changes between consecutive
\* samples, zero counting as non-negative (prev_sign starts as the sign of
\* samples[0], so the first sample never counts).
zero_crossings_of(samples) ==
    Cardinality({i \in 2..Len(samples) :
                    (samples[i] >= 0) # (samples[i - 1] >= 0)})

\* Frequencies in 1/100 Hz: FREQ_MIN, FREQ_MAX, BEAT_FREQ_MIN, BEAT_FREQ_MAX.
FREQ_MIN_CENTI == 6000
FREQ_MAX_CENTI == 600000
BEAT_FREQ_MIN_CENTI == 10000
BEAT_FREQ_MAX_CENTI == 50000

\* AGC_ATTACK_OLD, AGC_ATTACK_NEW, AGC_RELEASE_OLD, AGC_RELEASE_NEW in 1/100.
AGC_ATTACK_OLD_PCT == 25
AGC_ATTACK_NEW_PCT == 75
AGC_RELEASE_OLD_PCT == 90
AGC_RELEASE_NEW_PCT == 10

BEAT_HISTORY == 50

\* BEAT_THRESHOLD = 1.20 as the fraction BEAT_THRESHOLD_NUM / BEAT_THRESHOLD_DEN.
BEAT_THRESHOLD_NUM == 6
BEAT_THRESHOLD_DEN == 5

\* FFT_BIN_SCALE = 0.04194 as the fraction FFT_BIN_SCALE_NUM / FFT_BIN_SCALE_DEN.
FFT_BIN_SCALE_NUM == 2097
FFT_BIN_SCALE_DEN == 50000

\* Band values and the AGC bounds are integers in units of 1 / BinUnit;
\* FFT magnitudes are whole numbers.
BinUnit == 1000

\* What a float-to-usize cast gives for +infinity (usize::MAX), as the largest
\* index the model can hold.
USIZE_MAX == 2147483647

Max(a, b) == IF a >= b THEN a ELSE b

\* The largest r in lo..hi with r * r <= n, for lo * lo <= n.
RECURSIVE ISqrtIn(_, _, _)
ISqrtIn(n, lo, hi) ==
    IF lo >= hi THEN lo
    ELSE LET mid == (lo + hi + 1) \div 2
         IN  IF mid * mid <= n THEN ISqrtIn(n, mid, hi) ELSE ISqrtIn(n, lo, mid - 1)

\* f32::sqrt of n >= 0, rounded down to a whole number.
ISqrt(n) == ISqrtIn(n, 0, 46340)

\* FREQ_MIN * ratio.powi(i) for i = 0..NUM_BINS and ratio =
\* (FREQ_MAX / FREQ_MIN).powf(1 / NUM_BINS), in 1/100 Hz.
band_edge_freq ==
    <<6000, 8001, 10670, 14228, 18974, 25302, 33740, 44994, 60000, 80011,
      106697, 142282, 189737, 253018, 337405, 449937, 600000>>

\* (freq / freq_resolution).round() as usize with freq_resolution =
\* sr / FFT_SIZE: freq * 2048 / sr rounded half up; a division by 0.0 gives
\* +infinity, which the cast saturates.
hz_to_bin(freq_centi, sr) ==
    IF sr = 0 THEN USIZE_MAX
    ELSE (2 * freq_centi * (FFT_SIZE \div 4) + 25 * sr) \div (50 * sr)

\* The f32 holding n / 2^bits, n >= 0 (round to nearest, ties to even).
f32_of_bits(n, bits) ==
    IF n = 0 THEN [sign |-> 0, exp |-> 0, mant |-> 0]
    ELSE LET p == HighBit(n)
             e == p - bits + 127
         IN  IF p <= 23
             THEN [sign |-> 0, exp |-> e, mant |-> (n - Pow2(p)) * Pow2(23 - p)]
             ELSE LET sh == p - 23
                      q  == n \div Pow2(sh)
                      r  == n % Pow2(sh)
                      up == (2 * r > Pow2(sh)) \/ (2 * r = Pow2(sh) /\ q % 2 = 1)
                      m  == IF up THEN q + 1 ELSE q
                  IN  IF m = Pow2(24)
                      THEN [sign |-> 0, exp |-> e + 1, mant |-> 0]
                      ELSE [sign |-> 0, exp |-> e, mant |-> m - Pow2(23)]


\* DspProcessor::new(sr): the fields of the new processor (the window
\* coefficients and the FFT plan are part of the FFT, which is not computed).
new(sr) ==
    [sample_rate  |-> sr,
     buffer       |-> <<>>,
     bin_edges    |-> [i \in 1..(NUM_BINS + 1) |->
                          Min(hz_to_bin(band_edge_freq[i], sr), FFT_SIZE \div 2)],
     agc_min      |-> 0,
     agc_max      |-> BinUnit,
     sample_smth  |-> 0,
     beat_history |-> [i \in 1..BEAT_HISTORY |-> 0],
     beat_idx     |-> 0,
     beat_freq_lo |-> hz_to_bin(BEAT_FREQ_MIN_CENTI, sr),
     beat_freq_hi |-> hz_to_bin(BEAT_FREQ_MAX_CENTI, sr)]

\* The magnitudes of the positive half of the FFT of a window, given as the
\* set fx of its non-zero entries [bin, mag]: the FFT itself is not computed,
\* its result is an input of the model.
magnitudes(fx) ==
    [j \in 0..(FFT_SIZE \div 2 - 1) |->
        IF \E p \in fx : p.bin = j THEN (CHOOSE p \in fx : p.bin = j).mag ELSE 0]

\* The largest of mags[lo .. hi - 1], 0 for an empty range (`for j in lo..hi`
\* with a running maximum that starts at 0.0).
max_in_range(mags, lo, hi) ==
    LET V == {mags[j] : j \in lo..(hi - 1)}
    IN  IF V = {} THEN 0 ELSE CHOOSE m \in V : \A v \in V : v <= m

\* The first index of lo .. hi - 1 holding the magnitude m > 0, else 0.
first_index_of(mags, lo, hi, m) ==
    IF m = 0 THEN 0
    ELSE CHOOSE j \in lo..(hi - 1) :
            mags[j] = m /\ \A k \in lo..(j - 1) : mags[k] # m

\* magnitudes[j].sqrt() / FFT_BIN_SCALE, in units of 1 / BinUnit.
bin_value(mag) ==
    (ISqrt(mag * BinUnit * BinUnit) * FFT_BIN_SCALE_DEN) \div FFT_BIN_SCALE_NUM

\* The sum of the squares of mags[lo .. hi - 1].
RECURSIVE sum_squares(_, _, _)
sum_squares(mags, lo, hi) ==
    IF lo >= hi THEN 0
    ELSE IF hi = lo + 1 THEN mags[lo] * mags[lo]
    ELSE LET mid == (lo + hi) \div 2
         IN  sum_squares(mags, lo, mid) + sum_squares(mags, mid, hi)

RECURSIVE sum_seq(_, _)
sum_seq(s, n) == IF n = 0 THEN 0 ELSE s[n] + sum_seq(s, n - 1)

\* The asymmetric smoothing of an AGC bound: attack when the frame value is
\* beyond the bound, release otherwise.
agc_update(old, frame_val, attack) ==
    IF attack
    THEN (old * AGC_ATTACK_OLD_PCT + frame_val * AGC_ATTACK_NEW_PCT) \div 100
    ELSE (old * AGC_RELEASE_OLD_PCT + frame_val * AGC_RELEASE_NEW_PCT) \div 100

\* A normalization that divides by the plain difference of the AGC bounds.
normalize_unguarded(raw, floor, ceiling) ==
    LET span == IF ceiling - floor = 0 THEN 1 ELSE ceiling - floor
        n    == ((raw - floor) * 255) \div span
    IN  IF n < 0 THEN 0 ELSE IF n > 255 THEN 255 ELSE n

\* ((raw - agc_min) / span * 255.0).clamp(0.0, 255.0) as u8 with
\* span = (agc_max - agc_min).max(1.0).
normalize(raw, floor, ceiling) ==
    LET span == Max(ceiling - floor, BinUnit)
        n    == ((raw - floor) * 255) \div span
    IN  IF n < 0 THEN 0 ELSE IF n > 255 THEN 255 ELSE n

\* A beat detector that compares with the history before the insertion.
beat_detect_before_insert(history, idx, energy) ==
    [beat_history |-> [history EXCEPT ![idx + 1] = energy],
     beat_idx     |-> (idx + 1) % BEAT_HISTORY,
     sample_peak  |-> IF energy * BEAT_HISTORY * BEAT_THRESHOLD_DEN
                         > sum_seq(history, BEAT_HISTORY) * BEAT_THRESHOLD_NUM
                      THEN 1 ELSE 0]

\* The beat detection of process_frame: the energy is written at beat_idx,
\* beat_idx advances, and the energy is compared with BEAT_THRESHOLD times
\* the mean of the history that holds it.
beat_detect(history, idx, energy) ==
    LET h2 == [history EXCEPT ![idx + 1] = energy]
    IN  [beat_history |-> h2,
         beat_idx     |-> (idx + 1) % BEAT_HISTORY,
         sample_peak  |-> IF energy * BEAT_HISTORY * BEAT_THRESHOLD_DEN
                             > sum_seq(h2, BEAT_HISTORY) * BEAT_THRESHOLD_NUM
                          THEN 1 ELSE 0]

\* A silent branch that also resets the smoothed level.
silent_frame_reset(smth) ==
    [sample_smth |-> 0,
     frame |-> [sample_raw          |-> F32_ZERO,
                sample_smth         |-> F32_ZERO,
                sample_peak         |-> 0,
                fft_result          |-> [i \in 1..NUM_BINS |-> 0],
                zero_crossing_count |-> 0,
                fft_magnitude       |-> F32_ZERO,
                fft_major_peak      |-> F32_ZERO]]

\* The early return of process_frame for a window below the silence
\* threshold: smth is self.sample_smth after the smoothing step.
silent_frame(smth) ==
    [sample_smth |-> smth,
     frame |-> [sample_raw          |-> F32_ZERO,
                sample_smth         |-> f32_of(smth),
                sample_peak         |-> 0,
                fft_result          |-> [i \in 1..NUM_BINS |-> 0],
                zero_crossing_count |-> 0,
                fft_magnitude       |-> F32_ZERO,
                fft_major_peak      |-> F32_ZERO]]

\* A silent window that is treated as a window of zero magnitudes: the AGC
\* bounds are released towards 0 and a zero energy enters the beat history.
after_silence_aging(self, smth) ==
    [self EXCEPT !.sample_smth  = smth,
                 !.agc_min      = agc_update(self.agc_min, 0, FALSE),
                 !.agc_max      = agc_update(self.agc_max, 0, FALSE),
                 !.beat_history = [self.beat_history EXCEPT ![self.beat_idx + 1] = 0],
                 !.beat_idx     = (self.beat_idx + 1) % BEAT_HISTORY]

\* The processor after the early return of process_frame for a silent
\* window: the smoothing step is the only assignment made before it.
after_silence(self, smth) == [self EXCEPT !.sample_smth = smth]

\* DspProcessor::process_frame on one window; mags are the magnitudes of the
\* window's FFT.  Returns the processor after the call, the frame as <<f>>,
\* and whether the call panicked (then there is no frame: <<>>).
process_frame(self, samples, mags) ==
    LET max_abs    == max_abs_of(samples)
        zc         == zero_crossings_of(samples)
        sample_raw == Min(max_abs * 255, 255 * SampleUnit)
        smth2      == (self.sample_smth * SMOOTH_NUM) \div SMOOTH_DEN
                      + (sample_raw * (SMOOTH_DEN - SMOOTH_NUM)) \div SMOOTH_DEN
    IN  IF below_silence_threshold(max_abs)
        THEN LET sf == silent_frame(smth2)
             IN  [self     |-> after_silence(self, sf.sample_smth),
                  frame    |-> <<sf.frame>>,
                  panicked |-> FALSE]
        ELSE
        LET half      == FFT_SIZE \div 2
            \* major peak
            search_lo == hz_to_bin(FREQ_MIN_CENTI, self.sample_rate)
            search_hi == hz_to_bin(FREQ_MAX_CENTI, self.sample_rate)
            peak_mag  == max_in_range(mags, search_lo, Min(search_hi, half))
            peak_idx  == first_index_of(mags, search_lo, Min(search_hi, half), peak_mag)
            \* 16 log-spaced bins
            raw_bins  == [i \in 1..NUM_BINS |->
                            LET lo == self.bin_edges[i]
                                hi == Max(self.bin_edges[i + 1], lo + 1)
                            IN  bin_value(max_in_range(mags, lo, Min(hi, half)))]
            \* AGC
            frame_max == CHOOSE m \in Range(raw_bins) : \A v \in Range(raw_bins) : v <= m
            frame_min == CHOOSE m \in Range(raw_bins) : \A v \in Range(raw_bins) : m <= v
            agc_max2  == agc_update(self.agc_max, frame_max, frame_max > self.agc_max)
            agc_min2  == agc_update(self.agc_min, frame_min, frame_min < self.agc_min)
            fft_result == [i \in 1..NUM_BINS |-> normalize(raw_bins[i], agc_min2, agc_max2)]
            \* beat detection: the slice magnitudes[lo..hi.min(half)] panics
            \* when lo is beyond its end
            beat_end  == Min(self.beat_freq_hi, half)
        IN  IF self.beat_freq_lo > beat_end
            THEN [self |-> self, frame |-> <<>>, panicked |-> TRUE]
            ELSE
            LET energy == sum_squares(mags, self.beat_freq_lo, beat_end)
                beat   == beat_detect(self.beat_history, self.beat_idx, energy)
            IN  [self |-> [self EXCEPT !.sample_smth  = smth2,
                                       !.agc_min      = agc_min2,
                                       !.agc_max      = agc_max2,
                                       !.beat_history = beat.beat_history,
                                       !.beat_idx     = beat.beat_idx],
                 frame |-> <<[sample_raw          |-> f32_of(sample_raw),
                              sample_smth         |-> f32_of(smth2),
                              sample_peak         |-> beat.sample_peak,
                              fft_result          |-> fft_result,
                              zero_crossing_count |-> zc,
                              fft_magnitude       |-> f32_of(peak_mag * SampleUnit),
                              fft_major_peak      |->
                                  f32_of_bits(peak_idx * self.sample_rate,
                                              HighBit(FFT_SIZE))]>>,
                 panicked |-> FALSE]

\* A loop that forgets the overlap: it drains the whole window.
RECURSIVE push_loop_no_overlap(_, _, _, _)
push_loop_no_overlap(self, fxs, frames_out, windows_out) ==
    IF Len(self.buffer) >= FFT_SIZE
    THEN LET frame_data == SubSeq(self.buffer, 1, FFT_SIZE)
             drained    == [self EXCEPT !.buffer = SubSeq(self.buffer, FFT_SIZE + 1, Len(self.buffer))]
             r          == process_frame(drained, frame_data,
                                         magnitudes(fxs[Len(windows_out) + 1]))
         IN  IF r.panicked
             THEN [self |-> r.self, frames |-> frames_out,
                   windows |-> Append(windows_out, frame_data), panicked |-> TRUE]
             ELSE push_loop_no_overlap(r.self, fxs, frames_out \o r.frame,
                                       Append(windows_out, frame_data))
    ELSE [self |-> self, frames |-> frames_out, windows |-> windows_out,
          panicked |-> FALSE]

\* The while loop of push_samples: self.buffer holds the chunk already,
\* fxs[k] belongs to the k-th window of this call; windows_out records the
\* windows handed to process_frame.
RECURSIVE push_loop(_, _, _, _)
push_loop(self, fxs, frames_out, windows_out) ==
    IF Len(self.buffer) >= FFT_SIZE
    THEN LET frame_data == SubSeq(self.buffer, 1, FFT_SIZE)
             drained    == [self EXCEPT !.buffer = SubSeq(self.buffer, HOP_SIZE + 1, Len(self.buffer))]
             r          == process_frame(drained, frame_data,
                                         magnitudes(fxs[Len(windows_out) + 1]))
         IN  IF r.panicked
             THEN [self |-> r.self, frames |-> frames_out,
                   windows |-> Append(windows_out, frame_data), panicked |-> TRUE]
             ELSE push_loop(r.self, fxs, frames_out \o r.frame,
                            Append(windows_out, frame_data))
    ELSE [self |-> self, frames |-> frames_out, windows |-> windows_out,
          panicked |-> FALSE]

\* A push that puts the new samples in front of the buffered ones.
push_samples_in_front(self, samples, fxs) ==
    push_loop([self EXCEPT !.buffer = samples \o self.buffer], fxs, <<>>, <<>>)

\* DspProcessor::push_samples(&mut self, samples).
push_samples(self, samples, fxs) ==
    push_loop([self EXCEPT !.buffer = self.buffer \o samples], fxs, <<>>, <<>>)

-----------------------------------------------------------------------------
(* packet.rs: discover_broadcast_targets, UdpSender *)

\* a | b on two octets.
RECURSIVE OrBits(_, _, _)
OrBits(a, b, n) ==
    IF n = 0 THEN 0
    ELSE (IF a % 2 = 1 \/ b % 2 = 1 THEN 1 ELSE 0) + 2 * OrBits(a \div 2, b \div 2, n - 1)

\* ip_u32 | !mask_u32, octet by octet (!m on an octet is 255 - m).
broadcast_of(ip, netmask) == [i \in 1..4 |-> OrBits(ip[i], 255 - netmask[i], 8)]

\* Ipv4Addr::is_loopback: 127.0.0.0/8.
is_loopback(ip) == ip[1] = 127

BROADCAST_ALL == <<255, 255, 255, 255>>

SocketAddrV4(ip, p) == [ip |-> ip, port |-> p]

\* A discovery that forgets the universal broadcast address.
discover_no_fallback(ifres, p) ==
    IF ~ifres.ok THEN {}
    ELSE {SocketAddrV4(broadcast_of(ifres.addrs[i].ip, ifres.addrs[i].netmask), p) :
              i \in {j \in 1..Len(ifres.addrs) :
                        ifres.addrs[j].kind = "V4" /\ ~is_loopback(ifres.addrs[j].ip)}}

\* The HashSet `unique` of discover_broadcast_targets; ifres is the result
\* of get_if_addrs(): [ok |-> FALSE] for Err, [ok |-> TRUE, addrs |-> the
\* sequence of interface addresses] for Ok.
discover_set(ifres, p) ==
    {SocketAddrV4(BROADCAST_ALL, p)}
    \cup (IF ~ifres.ok THEN {}
          ELSE {SocketAddrV4(broadcast_of(ifres.addrs[i].ip, ifres.addrs[i].netmask), p) :
                    i \in {j \in 1..Len(ifres.addrs) :
                              ifres.addrs[j].kind = "V4" /\ ~is_loopback(ifres.addrs[j].ip)}})

\* discover_broadcast_targets(port): unique.into_iter().collect() yields the
\* set in an order the HashSet chooses, so every ordering is a result.
discover_broadcast_targets(ifres, p) == Orderings(discover_set(ifres, p))

\* A loop that gives up at the first failed destination.
RECURSIVE send_loop_break(_, _, _, _, _, _)
send_loop_break(tgts, buf, outcome, i, st, log) ==
    IF i > Len(tgts) THEN [st EXCEPT !.attempts = log]
    ELSE LET call == [target |-> tgts[i], bytes |-> buf, outcome |-> outcome[i]]
         IN  IF outcome[i] = "Ok"
             THEN send_loop_break(tgts, buf, outcome, i + 1,
                                  [st EXCEPT !.any_sent = TRUE], Append(log, call))
             ELSE [st EXCEPT !.last_error = i, !.attempts = Append(log, call)]

\* The for loop of UdpSender::send from target i on.  outcome[i] is what
\* socket.send_to returned for target i; log collects the send_to calls.
RECURSIVE send_loop(_, _, _, _, _, _)
send_loop(tgts, buf, outcome, i, st, log) ==
    IF i > Len(tgts) THEN [st EXCEPT !.attempts = log]
    ELSE LET call == [target |-> tgts[i], bytes |-> buf, outcome |-> outcome[i]]
             st2  == IF outcome[i] = "Ok"
                     THEN [st EXCEPT !.any_sent = TRUE]
                     ELSE [st EXCEPT !.last_error = i]
         IN  send_loop(tgts, buf, outcome, i + 1, st2, Append(log, call))

\* u8::wrapping_add(1).
wrapping_add_1(c) == (c + 1) % 256

\* An end that reports failure as soon as one destination failed.
send_finish_strict(st, fc) ==
    IF st.last_error # 0
    THEN [result |-> "Err", frame_counter |-> fc]
    ELSE [result |-> "Ok", frame_counter |-> wrapping_add_1(fc)]

\* An end that counts the frame per destination reached.
send_finish_per_target(st, fc) ==
    IF ~st.any_sent
    THEN [result |-> "Err", frame_counter |-> fc]
    ELSE [result |-> "Ok",
          frame_counter |-> (fc + Cardinality({i \in 1..Len(st.attempts) :
                                                  st.attempts[i].outcome = "Ok"})) % 256]

\* A sender that advances its counter on every call, failed or not.
send_finish_always_advance(st, fc) ==
    [result        |-> IF st.any_sent THEN "Ok" ELSE "Err",
     frame_counter |-> (fc + 1) % 256]

\* The end of UdpSender::send: the return value and the new frame_counter.
send_finish(st, fc) ==
    IF ~st.any_sent
    THEN [result |-> "Err", frame_counter |-> fc]
    ELSE [result |-> "Ok", frame_counter |-> wrapping_add_1(fc)]

\* UdpSender::send(&mut self, packet) as one call: the bytes sent, the
\* send_to calls made, the return value and the new frame_counter.
send(tgts, fc, packet, outcome) ==
    LET buf == to_bytes(packet, fc)
        st  == send_loop(tgts, buf, outcome, 1,
                         [any_sent |-> FALSE, last_error |-> 0, attempts |-> <<>>], <<>>)
        fin == send_finish(st, fc)
    IN  [bytes |-> buf, attempts |-> st.attempts,
         result |-> fin.result, frame_counter |-> fin.frame_counter]

-----------------------------------------------------------------------------
(* audio.rs: the input callback of build_stream *)

\* data.chunks(channels).map(|frame| sum / channels): the mono downmix of
\* interleaved samples (a short last frame is still divided by channels).
downmix(data, ch) ==
    [k \in 1..((Len(data) + ch - 1) \div ch) |->
        SumFrom(data, (k - 1) * ch + 1, Min(k * ch, Len(data))) \div ch]

\* A channel that makes room by evicting its oldest chunk.
try_send_evicting(q, msg) ==
    IF Len(q) < AUDIO_CHANNEL_SIZE
    THEN [ok |-> TRUE, queue |-> Append(q, msg)]
    ELSE [ok |-> TRUE, queue |-> Append(Tail(q), msg)]

\* tx.try_send(mono) on the bounded channel: Ok when the channel holds fewer
\* than AUDIO_CHANNEL_SIZE chunks, Err(Full) otherwise.  (try_send also
\* fails once the Receiver is dropped; main keeps rx until it returns, and
\* the stream, hence the callback, ends with it.)
try_send(q, msg) ==
    IF Len(q) < AUDIO_CHANNEL_SIZE
    THEN [ok |-> TRUE, queue |-> Append(q, msg)]
    ELSE [ok |-> FALSE, queue |-> q]

\* A callback that forgets to count.
count_drop_never(is_err, dc) == dc

\* if tx.try_send(mono).is_err() { drop_counter.fetch_add(1, Relaxed); }
count_drop(is_err, dc) == IF is_err THEN dc + 1 ELSE dc

-----------------------------------------------------------------------------
(* main.rs: the consumer loop *)

\* A receive that takes the newest chunk of the channel.
recv_newest(q) == [msg |-> q[Len(q)], queue |-> SubSeq(q, 1, Len(q) - 1)]

\* rx.recv_timeout(..) = Ok(samples) on a channel holding q: the oldest chunk
\* leaves the channel.
recv_timeout(q) == [msg |-> Head(q), queue |-> Tail(q)]

\* A packet whose two levels are exchanged.
packet_of_swapped(frame) ==
    [sample_raw          |-> frame.sample_smth,
     sample_smth         |-> frame.sample_raw,
     sample_peak         |-> frame.sample_peak,
     fft_result          |-> frame.fft_result,
     zero_crossing_count |-> frame.zero_crossing_count,
     fft_magnitude       |-> frame.fft_magnitude,
     fft_major_peak      |-> frame.fft_major_peak]

\* The AudioSyncPacketV2 main builds from a DspFrame.
packet_of(frame) ==
    [sample_raw          |-> frame.sample_raw,
     sample_smth         |-> frame.sample_smth,
     sample_peak         |-> frame.sample_peak,
     fft_result          |-> frame.fft_result,
     zero_crossing_count |-> frame.zero_crossing_count,
     fft_magnitude       |-> frame.fft_magnitude,
     fft_major_peak      |-> frame.fft_major_peak]

-----------------------------------------------------------------------------
(* Bounds and inputs of the model *)

MaxSamples == 4096      \* samples pushed in SpecDsp
MaxPushes == 3          \* push_samples calls in SpecDsp
MaxOkSends == 257       \* successful send calls in SpecSender
MaxErrSends == 2        \* failed send calls in SpecSender
MaxCaptured == 9        \* callback invocations in Spec
MaxCapturedFrames == 3200   \* frames given to the callback in Spec
MaxHops == 54           \* push_samples calls in SpecFrames

F32_ONE == [sign |-> 0, exp |-> 127, mant |-> 0]
F32_255 == [sign |-> 0, exp |-> 134, mant |-> 8323072]
F32_PATTERN == [sign |-> 1, exp |-> 129, mant |-> 1193046]
F32_NAN == [sign |-> 0, exp |-> 255, mant |-> 4194304]
F32_ONES == [sign |-> 1, exp |-> 255, mant |-> 8388607]

BinsZero == [i \in 1..NUM_BINS |-> 0]
BinsRamp == [i \in 1..NUM_BINS |-> 16 * i - 1]
BinsFull == [i \in 1..NUM_BINS |-> 255]

\* Packets and counter bytes given to to_bytes in SpecCodec.
CodecPackets ==
    [sample_raw          : {F32_ZERO, F32_255, F32_PATTERN},
     sample_smth         : {F32_ONE, F32_PATTERN, F32_ONES},
     sample_peak         : {0, 1, 255},
     fft_result          : {BinsZero, BinsRamp, BinsFull},
     zero_crossing_count : {0, 258, 2047, 65535},
     fft_magnitude       : {F32_ZERO, F32_NAN},
     fft_major_peak      : {F32_255, F32_PATTERN}]

CounterBytes == {0, 1, 200, 255}

\* FFT magnitudes of a window, as the set of the non-zero entries: a quiet
\* spectrum without bass, one with a strong bass line, one with strong highs.
FxQuiet == {[bin |-> 3, mag |-> 4], [bin |-> 40, mag |-> 9], [bin |-> 200, mag |-> 16]}
FxBeat == {[bin |-> 10, mag |-> 900], [bin |-> 60, mag |-> 100], [bin |-> 250, mag |-> 25]}
FxTreble == {[bin |-> 12, mag |-> 30], [bin |-> 150, mag |-> 1600], [bin |-> 1023, mag |-> 400]}

\* A faint flat spectrum: the same small magnitude in one bin of each of the
\* 16 bands of a 44100 Hz processor.
FxFlat ==
    {[bin |-> b, mag |-> 1] :
        b \in {3, 4, 5, 7, 9, 12, 16, 21, 28, 37, 50, 66, 88, 118, 157, 209}}

\* A spectrum with a bass line stronger than that of FxBeat.
FxKick == {[bin |-> 8, mag |-> 1800], [bin |-> 30, mag |-> 1200], [bin |-> 100, mag |-> 1]}

\* Lengths of the chunks pushed in SpecDsp.
ChunkLens == {0, 1, 1023, 1024, 2048, 3072}

\* The chunks pushed in SpecDsp: an amplitude (below the silence threshold,
\* half scale) and the FFT magnitudes of the windows completed by the chunk.
DspInputs ==
    {[amp |-> 5, fx |-> FxQuiet],
     [amp |-> SampleUnit \div 2, fx |-> FxBeat]}

\* A chunk of n samples of amplitude a whose sign alternates every 3rd
\* sample, starting at position `from` of the stream.
Chunk(from, n, a) == [i \in 1..n |-> IF ((from + i) \div 3) % 2 = 0 THEN a ELSE -a]

\* Results of get_if_addrs().
Lo == [kind |-> "V4", ip |-> <<127, 0, 0, 1>>, netmask |-> <<255, 0, 0, 0>>]
Eth0 == [kind |-> "V4", ip |-> <<192, 168, 178, 20>>, netmask |-> <<255, 255, 255, 0>>]
Eth0b == [kind |-> "V4", ip |-> <<192, 168, 178, 21>>, netmask |-> <<255, 255, 255, 0>>]
Wlan0 == [kind |-> "V4", ip |-> <<172, 16, 5, 9>>, netmask |-> <<255, 255, 240, 0>>]
V6 == [kind |-> "V6"]

IfErr == [ok |-> FALSE]
IfOk(addrs) == [ok |-> TRUE, addrs |-> addrs]

\* args.target: <<>> stands for a construction without a target.
NoTarget == <<>>
DefaultTarget == <<192, 168, 178, 63>>

\* The constructions of SpecSender: what get_if_addrs() returns, args.port
\* and args.target.
SenderConfigs ==
    {[if_addrs |-> IfErr, port |-> 11988, target |-> NoTarget],
     [if_addrs |-> IfOk(<<Lo>>), port |-> 21324, target |-> DefaultTarget],
     [if_addrs |-> IfOk(<<Lo, Eth0>>), port |-> 11988, target |-> DefaultTarget],
     [if_addrs |-> IfOk(<<Wlan0, V6, Lo>>), port |-> 21324, target |-> NoTarget],
     [if_addrs |-> IfOk(<<Eth0, V6, Eth0b>>), port |-> 11988, target |-> DefaultTarget]}

\* The construction of Spec: main with its default arguments on a host with
\* one network interface.
MainConfigs ==
    {[if_addrs |-> IfOk(<<Lo, Eth0>>), port |-> 11988, target |-> DefaultTarget]}

\* Packets handed to send in SpecSender.
SenderPackets ==
    {[sample_raw |-> F32_255, sample_smth |-> F32_PATTERN, sample_peak |-> 1,
      fft_result |-> BinsRamp, zero_crossing_count |-> 258,
      fft_magnitude |-> F32_255, fft_major_peak |-> F32_PATTERN]}

\* What the platform hands to the capture callback in Spec: n frames of
\* amplitude amp; fx is what the spectral half of process_frame makes of the
\* windows this chunk completes.
CallbackInputs ==
    {[n |-> 16, amp |-> SampleUnit \div 4, fx |-> FxQuiet],
     [n |-> 3072, amp |-> SampleUnit \div 2, fx |-> FxBeat]}

\* What the platform hands to the capture callback in SpecShutdown: chunks
\* long enough for two of them, or the longer one alone, to complete a window.
ShutdownInputs ==
    {[n |-> 1600, amp |-> SampleUnit \div 4, fx |-> FxQuiet],
     [n |-> 3072, amp |-> SampleUnit \div 2, fx |-> FxBeat]}

\* n interleaved frames of ch channels whose mean is amp in every frame.
CallbackData(n, amp, ch) ==
    [i \in 1..(n * ch) |-> amp + (ch - 1) * (IF i % 2 = 1 THEN 64 ELSE -64)]

-----------------------------------------------------------------------------
(* Initial states *)

\* The processor as a record of its fields.
Self ==
    [sample_rate  |-> sample_rate,
     buffer       |-> buffer,
     bin_edges    |-> bin_edges,
     agc_min      |-> agc_min,
     agc_max      |-> agc_max,
     sample_smth  |-> sample_smth,
     beat_history |-> beat_history,
     beat_idx     |-> beat_idx,
     beat_freq_lo |-> beat_freq_lo,
     beat_freq_hi |-> beat_freq_hi]

\* The processor's fields become those of d.
SetSelf(d) ==
    /\ sample_rate' = d.sample_rate
    /\ buffer' = d.buffer
    /\ bin_edges' = d.bin_edges
    /\ agc_min' = d.agc_min
    /\ agc_max' = d.agc_max
    /\ sample_smth' = d.sample_smth
    /\ beat_history' = d.beat_history
    /\ beat_idx' = d.beat_idx
    /\ beat_freq_lo' = d.beat_freq_lo
    /\ beat_freq_hi' = d.beat_freq_hi

\* DspProcessor::new(sr) for a sample rate of rates.
InitDspWith(rates) ==
    /\ \E sr \in rates :
          LET d == new(sr)
          IN  /\ sample_rate = d.sample_rate
              /\ buffer = d.buffer
              /\ bin_edges = d.bin_edges
              /\ agc_min = d.agc_min
              /\ agc_max = d.agc_max
              /\ sample_smth = d.sample_smth
              /\ beat_history = d.beat_history
              /\ beat_idx = d.beat_idx
              /\ beat_freq_lo = d.beat_freq_lo
              /\ beat_freq_hi = d.beat_freq_hi
    /\ panicked = FALSE
    /\ pushed = <<>>
    /\ last_windows = <<>>
    /\ last_fx = {}
    /\ pushes = 0
    /\ total_pushed = 0
    /\ frames_total = 0
    /\ last_frames = <<>>

\* DspProcessor::new at the usual device rate.
InitDsp == InitDspWith({44100})

\* UdpSender::new: the targets are discovered, the frame counter is 0.
InitSender(configs) ==
    /\ \E c \in configs :
          /\ if_addrs = c.if_addrs
          /\ port = c.port
          /\ args_target = c.target
    /\ targets \in discover_broadcast_targets(if_addrs, port)
    /\ frame_counter = 0
    /\ attempts = <<>>
    /\ result = "none"
    /\ ok_sends = 0
    /\ err_sends = 0

\* open_capture_stream: an empty channel, a drop counter of 0; main: the
\* running flag set, the consumer loop at its head.
InitCapture ==
    /\ queue = <<>>
    /\ drop_counter = 0
    /\ channels \in {1, 2}
    /\ running = TRUE
    /\ pc = "check"
    /\ frames = <<>>
    /\ captured = 0
    /\ captured_frames = 0
    /\ received = <<>>
    /\ handed = <<>>
    /\ connected = TRUE
    /\ recvs_after_stop = 0

InitCodec ==
    /\ pkt = <<>>
    /\ bytes = <<>>
    /\ decoded = <<>>

-----------------------------------------------------------------------------
(* SpecCodec: to_bytes and the receiver's decoding on arbitrary packets *)

InitCodecSpec ==
    /\ pkt \in {<<p>> : p \in CodecPackets}
    /\ bytes = <<>>
    /\ decoded = <<>>
    /\ InitDsp
    /\ InitCapture /\ channels = 1
    /\ if_addrs = IfErr /\ port = 11988 /\ args_target = NoTarget
    /\ targets \in discover_broadcast_targets(if_addrs, port)
    /\ frame_counter \in CounterBytes
    /\ attempts = <<>> /\ result = "none" /\ ok_sends = 0 /\ err_sends = 0

\* packet.to_bytes(frame_counter)
Encode ==
    /\ bytes = <<>>
    /\ bytes' = to_bytes(pkt[1], frame_counter)
    /\ UNCHANGED <<pkt, decoded, captureVars, dspVars, senderVars>>

\* the receiver reads the packet
Decode ==
    /\ bytes # <<>>
    /\ decoded = <<>>
    /\ decoded' = <<decode(bytes)>>
    /\ UNCHANGED <<pkt, bytes, captureVars, dspVars, senderVars>>

NextCodec == Encode \/ Decode

SpecCodec == InitCodecSpec /\ [][NextCodec]_vars

-----------------------------------------------------------------------------
(* SpecDsp: push_samples on a fresh DspProcessor with arbitrary chunks *)

InitDspSpec ==
    /\ InitDsp
    /\ InitCodec
    /\ InitCapture /\ channels = 1
    /\ InitSender({[if_addrs |-> IfErr, port |-> 11988, target |-> NoTarget]})

\* dsp.push_samples(&samples)
Push ==
    \E n \in ChunkLens, inp \in DspInputs :
        /\ total_pushed + n <= MaxSamples
        /\ pushes < MaxPushes
        /\ ~panicked
        /\ LET fxs == [k \in 1..((Len(buffer) + n) \div HOP_SIZE) |-> inp.fx]
                  samples == Chunk(total_pushed, n, inp.amp)
                  r == push_samples(Self, samples, fxs)
              IN  /\ SetSelf(r.self)
                  /\ panicked' = r.panicked
                  /\ pushed' = Append(pushed, [from |-> total_pushed, n |-> n,
                                               amp |-> inp.amp])
                  /\ last_windows' = r.windows
                  /\ last_fx' = inp.fx
                  /\ last_frames' = r.frames
                  /\ frames_total' = frames_total + Len(r.frames)
                  /\ total_pushed' = total_pushed + n
                  /\ pushes' = pushes + 1
        /\ UNCHANGED <<captureVars, codecVars, senderVars>>

NextDsp == Push

SpecDsp == InitDspSpec /\ [][NextDsp]_vars

-----------------------------------------------------------------------------
(* SpecFrames: a long stream pushed hop by hop, for several sample rates *)

\* Sample rates given to DspProcessor::new.
SampleRates == {0, 100, 8000, 44100}

\* The chunks a hop of VariedHops chooses from.
HopInputs ==
    {[amp |-> SampleUnit \div 2, fx |-> FxBeat],
     [amp |-> SampleUnit \div 2, fx |-> FxFlat],
     [amp |-> SampleUnit \div 4, fx |-> FxKick],
     [amp |-> 0, fx |-> FxTreble]}

\* The hops at which the source changes: the first hop, an early one, and
\* one after the beat history has wrapped.  Every other hop continues with
\* the amplitude and spectrum of the hop before it.
VariedHops == {1, 3, 52}

\* The amplitude and spectrum of the previous hop.
PrevInput == [amp |-> pushed[Len(pushed)].amp, fx |-> last_fx]

InitFrames ==
    /\ InitDspWith(SampleRates)
    /\ InitCodec
    /\ InitCapture /\ channels = 1
    /\ InitSender({[if_addrs |-> IfErr, port |-> 11988, target |-> NoTarget]})

\* dsp.push_samples(&samples) with a chunk of HOP_SIZE samples
PushHop ==
    \E inp \in (IF pushes + 1 \in VariedHops THEN HopInputs ELSE {PrevInput}) :
        /\ pushes < MaxHops
        /\ ~panicked
        /\ LET fxs == [k \in 1..((Len(buffer) + HOP_SIZE) \div HOP_SIZE) |-> inp.fx]
                  samples == Chunk(total_pushed, HOP_SIZE, inp.amp)
                  r == push_samples(Self, samples, fxs)
              IN  /\ SetSelf(r.self)
                  /\ panicked' = r.panicked
                  /\ pushed' = Append(pushed, [from |-> total_pushed, n |-> HOP_SIZE,
                                               amp |-> inp.amp])
                  /\ last_windows' = r.windows
                  /\ last_fx' = inp.fx
                  /\ last_frames' = r.frames
                  /\ frames_total' = frames_total + Len(r.frames)
                  /\ total_pushed' = total_pushed + HOP_SIZE
                  /\ pushes' = pushes + 1
        /\ UNCHANGED <<captureVars, codecVars, senderVars>>

NextFrames == PushHop

SpecFrames == InitFrames /\ [][NextFrames]_vars

-----------------------------------------------------------------------------
(* SpecSender: UdpSender::new followed by arbitrary send calls *)

InitSenderSpec ==
    /\ InitSender(SenderConfigs)
    /\ InitCodec
    /\ InitDsp
    /\ InitCapture /\ channels = 1

\* sender.send(&packet), every destination failing or succeeding freely
SendCall ==
    \E packet \in SenderPackets, outcome \in [1..Len(targets) -> {"Ok", "Err"}] :
        LET r == send(targets, frame_counter, packet, outcome)
        IN  /\ r.result = "Ok" => ok_sends < MaxOkSends
            /\ r.result = "Err" => err_sends < MaxErrSends
            /\ pkt' = <<packet>>
            /\ bytes' = r.bytes
            /\ attempts' = r.attempts
            /\ result' = r.result
            /\ frame_counter' = r.frame_counter
            /\ ok_sends' = IF r.result = "Ok" THEN ok_sends + 1 ELSE ok_sends
            /\ err_sends' = IF r.result = "Err" THEN err_sends + 1 ELSE err_sends
            /\ UNCHANGED <<if_addrs, args_target, port, targets, decoded,
                           captureVars, dspVars>>

NextSender == SendCall

SpecSender == InitSenderSpec /\ [][NextSender]_vars

-----------------------------------------------------------------------------
(* Spec: main -- the capture callback against the consumer loop *)

Init ==
    /\ InitCapture /\ channels = 2
    /\ InitDsp
    /\ InitCodec
    /\ InitSender(MainConfigs)

\* audio.rs, the input callback: downmix, try_send, count a failed try_send.
\* The callback runs while the stream is alive, that is until main returns.
CallbackWith(inputs) ==
    /\ pc # "done"
    /\ connected
    /\ captured < MaxCaptured
    /\ \E inp \in inputs :
          /\ captured_frames + inp.n <= MaxCapturedFrames
          /\ captured_frames' = captured_frames + inp.n
          /\ LET mono == downmix(CallbackData(inp.n, inp.amp, channels), channels)
                 msg  == [seq |-> captured + 1, samples |-> mono, fx |-> inp.fx]
                 sent == try_send(queue, msg)
             IN  /\ queue' = sent.queue
                 /\ drop_counter' = count_drop(~sent.ok, drop_counter)
    /\ captured' = captured + 1
    /\ UNCHANGED <<channels, running, pc, frames, received, handed, connected,
                   recvs_after_stop, dspVars, codecVars, senderVars>>

Callback == CallbackWith(CallbackInputs)

\* main.rs, the Ctrl+C handler: r.store(false)
CtrlC ==
    /\ running
    /\ running' = FALSE
    /\ UNCHANGED <<queue, drop_counter, channels, pc, frames, captured,
                   captured_frames, received, handed, connected,
                   recvs_after_stop, dspVars, codecVars, senderVars>>

\* A loop head that does not look at the flag.
CheckIgnoringFlag ==
    /\ pc = "check"
    /\ pc' = "recv"
    /\ UNCHANGED <<queue, drop_counter, channels, running, frames, captured,
                   captured_frames, received, handed, connected,
                   recvs_after_stop, dspVars, codecVars, senderVars>>

\* main.rs: while running.load(...)
Check ==
    /\ pc = "check"
    /\ ~panicked
    /\ pc' = IF running THEN "recv" ELSE "done"
    /\ UNCHANGED <<queue, drop_counter, channels, running, frames, captured,
                   captured_frames, received, handed, connected,
                   recvs_after_stop, dspVars, codecVars, senderVars>>

\* main.rs: rx.recv_timeout(100 ms) returns Ok(samples); push_samples
RecvOk ==
    /\ pc = "recv"
    /\ ~panicked
    /\ queue # <<>>
    /\ LET rcv == recv_timeout(queue)
           msg == rcv.msg
           fxs == [k \in 1..((Len(buffer) + Len(msg.samples)) \div HOP_SIZE) |-> msg.fx]
           r   == push_samples(Self, msg.samples, fxs)
       IN  /\ queue' = rcv.queue
           /\ received' = Append(received, msg.seq)
           /\ SetSelf(r.self)
           /\ panicked' = r.panicked
           /\ pushed' = Append(pushed, [from |-> total_pushed,
                                        n    |-> Len(msg.samples),
                                        amp  |-> max_abs_of(msg.samples)])
           /\ last_windows' = r.windows
           /\ last_fx' = msg.fx
           /\ last_frames' = r.frames
           /\ frames_total' = frames_total + Len(r.frames)
           /\ total_pushed' = total_pushed + Len(msg.samples)
           /\ pushes' = pushes + 1
           /\ frames' = r.frames
           /\ pc' = IF r.frames = <<>> THEN "check" ELSE "send"
    /\ recvs_after_stop' = IF running THEN recvs_after_stop ELSE recvs_after_stop + 1
    /\ UNCHANGED <<drop_counter, channels, running, captured, captured_frames,
                   handed, connected, codecVars, senderVars>>

\* main.rs: rx.recv_timeout(100 ms) returns Err(Timeout); continue
RecvTimeout ==
    /\ pc = "recv"
    /\ ~panicked
    /\ queue = <<>>
    /\ connected
    /\ pc' = "check"
    /\ recvs_after_stop' = IF running THEN recvs_after_stop ELSE recvs_after_stop + 1
    /\ UNCHANGED <<queue, drop_counter, channels, running, frames, captured,
                   captured_frames, received, handed, connected, dspVars,
                   codecVars, senderVars>>

\* main.rs: rx.recv_timeout(100 ms) returns Err(Disconnected); break
RecvDisconnected ==
    /\ pc = "recv"
    /\ ~panicked
    /\ queue = <<>>
    /\ ~connected
    /\ pc' = "done"
    /\ recvs_after_stop' = IF running THEN recvs_after_stop ELSE recvs_after_stop + 1
    /\ UNCHANGED <<queue, drop_counter, channels, running, frames, captured,
                   captured_frames, received, handed, connected, dspVars,
                   codecVars, senderVars>>

\* The platform ends the stream while main runs: the callback is dropped and
\* with it the only SyncSender of the channel.
StreamEnd ==
    /\ pc # "done"
    /\ connected
    /\ connected' = FALSE
    /\ UNCHANGED <<queue, drop_counter, channels, running, pc, frames, captured,
                   captured_frames, received, handed, recvs_after_stop,
                   dspVars, codecVars, senderVars>>

\* main.rs: the body of `for frame in frames`: build the packet, send it
SendFrame ==
    /\ pc = "send"
    /\ ~panicked
    /\ LET frame  == Head(frames)
           packet == packet_of(frame)
       IN  \E outcome \in [1..Len(targets) -> {"Ok", "Err"}] :
              LET r == send(targets, frame_counter, packet, outcome)
              IN  /\ pkt' = <<packet>>
                  /\ bytes' = r.bytes
                  /\ attempts' = r.attempts
                  /\ result' = r.result
                  /\ frame_counter' = r.frame_counter
                  /\ ok_sends' = IF r.result = "Ok" THEN ok_sends + 1 ELSE ok_sends
                  /\ err_sends' = IF r.result = "Err" THEN err_sends + 1 ELSE err_sends
                  /\ handed' = Append(handed, frame)
    /\ frames' = Tail(frames)
    /\ pc' = IF Tail(frames) = <<>> THEN "check" ELSE "send"
    /\ UNCHANGED <<queue, drop_counter, channels, running, captured,
                   captured_frames, received, connected, recvs_after_stop,
                   if_addrs, args_target, port, targets, decoded, dspVars>>

Next == Callback \/ CtrlC \/ Check \/ RecvOk \/ RecvTimeout \/ SendFrame

Spec == Init /\ [][Next]_vars

-----------------------------------------------------------------------------
(* SpecShutdown: main with a stream that may end, the consumer loop being
   scheduled: recv_timeout returns within its timeout and send never blocks *)

\* The callback on the long chunks of ShutdownInputs.
CallbackLong == CallbackWith(ShutdownInputs)

\* What a RecvOk step does to the channel and a SendFrame step to the pending
\* frames: no other step takes the head of either, and RecvOk is enabled
\* exactly when RecvOkTaken is, SendFrame exactly when SendFrameTaken is.
RecvOkTaken == pc = "recv" /\ queue # <<>> /\ queue' = Tail(queue)
SendFrameTaken == pc = "send" /\ frames # <<>> /\ frames' = Tail(frames)

\* The consumer thread is scheduled: whichever step of the loop is possible
\* is eventually taken.
ConsumerFairness ==
    /\ WF_vars(Check)
    /\ WF_queue(RecvOkTaken)
    /\ WF_vars(RecvTimeout)
    /\ WF_vars(RecvDisconnected)
    /\ WF_frames(SendFrameTaken)

NextShutdown ==
    \/ CallbackLong
    \/ CtrlC
    \/ StreamEnd
    \/ Check
    \/ RecvOk
    \/ RecvTimeout
    \/ RecvDisconnected
    \/ SendFrame

SpecShutdown == Init /\ [][NextShutdown]_vars /\ ConsumerFairness

-----------------------------------------------------------------------------
(* Properties *)

\* The two 16-bit halves of the 32-bit pattern of an f32.
F32High16(x) == x.sign * 32768 + x.exp * 128 + (x.mant \div 65536)
F32Low16(x) == x.mant % 65536

\* The four bytes at offset off of buf hold the f32 x, least significant
\* byte first.
HoldsF32LE(buf, off, x) ==
    /\ buf[off + 1] = F32Low16(x) % 256
    /\ buf[off + 2] = F32Low16(x) \div 256
    /\ buf[off + 3] = F32High16(x) % 256
    /\ buf[off + 4] = F32High16(x) \div 256

\* C1: after any sequence of pushes totalling N samples into a fresh
\* DspProcessor, the number of frames returned so far is 0 when N < 2048 and
\* floor((N - 2048) / 1024) + 1 otherwise, however the samples were split.
C1_FrameCount ==
    frames_total = IF total_pushed < 2048 THEN 0
                   ELSE (total_pushed - 2048) \div 1024 + 1

\* 2048 + 1024 samples pushed in three chunks have given two frames.
C1_Witness == pushes = 3 /\ total_pushed = 3072 /\ frames_total = 2

\* C2: to_bytes returns exactly 44 bytes: "00002\0", two zero bytes, the raw
\* and smoothed levels as little-endian f32, the beat flag, the counter byte,
\* the 16 band bytes in order, the little-endian u16 zero-crossing count, the
\* peak magnitude and peak frequency as little-endian f32.
C2_Layout ==
    bytes # <<>> =>
        LET p == pkt[1]
        IN  /\ Len(bytes) = 44
            /\ SubSeq(bytes, 1, 8) = <<48, 48, 48, 48, 50, 0, 0, 0>>
            /\ HoldsF32LE(bytes, 8, p.sample_raw)
            /\ HoldsF32LE(bytes, 12, p.sample_smth)
            /\ bytes[17] = p.sample_peak
            /\ bytes[18] = frame_counter
            /\ \A i \in 1..16 : bytes[18 + i] = p.fft_result[i]
            /\ bytes[35] = p.zero_crossing_count % 256
            /\ bytes[36] = p.zero_crossing_count \div 256
            /\ HoldsF32LE(bytes, 36, p.fft_magnitude)
            /\ HoldsF32LE(bytes, 40, p.fft_major_peak)

\* A packet whose fields all differ has been encoded with counter byte 200.
C2_Witness ==
    /\ bytes # <<>>
    /\ frame_counter = 200
    /\ pkt[1].sample_raw = F32_PATTERN
    /\ pkt[1].sample_smth = F32_ONES
    /\ pkt[1].sample_peak = 1
    /\ pkt[1].fft_result = BinsRamp
    /\ pkt[1].zero_crossing_count = 258

\* C3: decoding the encoded packet at the documented offsets recovers every
\* field of the packet and the counter byte, bit for bit.
C3_RoundTrip ==
    decoded # <<>> =>
        LET p == pkt[1]
            d == decoded[1]
        IN  /\ d.sample_raw = p.sample_raw
            /\ d.sample_smth = p.sample_smth
            /\ d.sample_peak = p.sample_peak
            /\ d.frame_counter = frame_counter
            /\ d.fft_result = p.fft_result
            /\ d.zero_crossing_count = p.zero_crossing_count
            /\ d.fft_magnitude = p.fft_magnitude
            /\ d.fft_major_peak = p.fft_major_peak

\* A packet holding a negative number, a NaN and the largest count has been
\* encoded and decoded.
C3_Witness ==
    /\ decoded # <<>>
    /\ pkt[1].sample_raw = F32_PATTERN
    /\ pkt[1].fft_magnitude = F32_NAN
    /\ pkt[1].zero_crossing_count = 65535
    /\ frame_counter = 255

\* A step that is one call of UdpSender::send.
SendStep == ok_sends' # ok_sends \/ err_sends' # err_sends

\* C4: the frame counter starts at 0; a send call that reaches at least one
\* destination advances it by exactly one modulo 256, however many
\* destinations there are and however many failed, and the packet of that
\* call carries the counter's value before the advance.
C4_CounterAdvance ==
    /\ frame_counter = 0
    /\ [][(SendStep /\ \E i \in 1..Len(attempts') : attempts'[i].outcome = "Ok")
            => /\ frame_counter' = (frame_counter + 1) % 256
               /\ bytes'[18] = frame_counter]_vars

\* The 256th successful send carried 255 and wrapped the counter to 0.
C4_Witness ==
    ok_sends = 256 /\ frame_counter = 0 /\ result = "Ok" /\ bytes[18] = 255

\* C5: a send call returns failure exactly when the transmission to every
\* destination failed in that call.
C5_ErrIffAllFailed ==
    result # "none" =>
        (result = "Err" <=> \A i \in 1..Len(attempts) : attempts[i].outcome = "Err")

\* A call succeeded although its first destination failed.
C5_Witness ==
    result = "Ok" /\ Len(attempts) = 2 /\ attempts[1].outcome = "Err"

\* C6: every send call makes exactly one send_to of the same 44 bytes to
\* each target, in target order, whatever the earlier ones returned.
C6_EveryTargetOnce ==
    result # "none" =>
        /\ Len(attempts) = Len(targets)
        /\ Len(bytes) = 44
        /\ \A i \in 1..Len(targets) :
              attempts[i].target = targets[i] /\ attempts[i].bytes = bytes

\* A call whose first destination failed still tried the second.
C6_Witness ==
    /\ result = "Err"
    /\ Len(targets) = 2
    /\ Len(attempts) = 2
    /\ attempts[1].outcome = "Err"

\* C7: the targets are never empty, always hold 255.255.255.255 at the
\* configured port, and no step changes them.
C7_TargetsFixed ==
    /\ [](targets # <<>> /\ SocketAddrV4(BROADCAST_ALL, port) \in Range(targets))
    /\ [][targets' = targets]_vars

\* Failed and successful sends have happened on a sender with two targets.
C7_Witness ==
    Len(targets) = 2 /\ err_sends = 2 /\ ok_sends = 2 /\ result = "Err"

\* C8: a sender constructed with an explicit target sends to exactly that
\* target; broadcast discovery is used only without one.
C8_ExplicitTarget ==
    args_target # NoTarget => targets = <<SocketAddrV4(args_target, port)>>

\* A step that is one invocation of the capture callback.
CallbackStep == captured' = captured + 1

C10_DropCounter ==
    /\ [](captured = Len(received) + Len(queue) + drop_counter)
    /\ [][drop_counter' = IF CallbackStep /\ queue' = queue
                          THEN drop_counter + 1
                          ELSE drop_counter]_vars

\* A chunk was dropped and the consumer has received chunks since.
C10_Witness == drop_counter = 1 /\ Len(received) >= 2 /\ Len(queue) >= 1

\* The capture numbers of the chunks received, followed by those of the
\* chunks still in the channel.
DeliveryOrder == received \o [i \in 1..Len(queue) |-> queue[i].seq]

\* C11: the chunks the consumer has received, followed by the chunks in the
\* channel, are in strictly increasing capture order: nothing is received
\* twice, nothing out of order, and no enqueued chunk is overtaken.
C11_CaptureOrder ==
    \A i, j \in 1..Len(DeliveryOrder) :
        /\ DeliveryOrder[i] \in 1..captured
        /\ i < j => DeliveryOrder[i] < DeliveryOrder[j]

\* Three chunks were received in order, five wait, the ninth was dropped.
C11_Witness ==
    /\ received = <<1, 2, 3>>
    /\ Len(queue) = 5
    /\ drop_counter = 1
    /\ captured = 9

\* C13: a receive happens only when no frame is pending and makes the frames
\* push returned pending; every hand-over to send takes the first pending
\* frame, builds the packet from its fields unchanged, and leaves the rest
\* pending, whatever send returns; a failed send is counted once.  So the
\* frames handed over and the frames pending are all the frames produced.
C13_EveryFrameSent ==
    /\ [](Len(handed) + Len(frames) = frames_total)
    /\ [](pc # "send" <=> frames = <<>>)
    /\ [][received' # received => frames = <<>> /\ frames' = last_frames']_vars
    /\ [][(ok_sends' # ok_sends \/ err_sends' # err_sends) =>
            /\ frames # <<>>
            /\ handed' = Append(handed, Head(frames))
            /\ frames' = Tail(frames)
            /\ received' = received
            /\ pkt'[1].sample_raw = Head(frames).sample_raw
            /\ pkt'[1].sample_smth = Head(frames).sample_smth
            /\ pkt'[1].sample_peak = Head(frames).sample_peak
            /\ pkt'[1].fft_result = Head(frames).fft_result
            /\ pkt'[1].zero_crossing_count = Head(frames).zero_crossing_count
            /\ pkt'[1].fft_magnitude = Head(frames).fft_magnitude
            /\ pkt'[1].fft_major_peak = Head(frames).fft_major_peak
            /\ ok_sends' + err_sends' = ok_sends + err_sends + 1
            /\ (result' = "Err" <=> err_sends' = err_sends + 1)
            /\ pc' = IF Len(frames) > 1 THEN "send" ELSE "check"]_vars
    /\ [][handed' # handed => (ok_sends' # ok_sends \/ err_sends' # err_sends)]_vars

\* The first frame of a chunk failed for all destinations and the second
\* frame of the same chunk was sent all the same.
C13_Witness ==
    /\ Len(handed) = 2
    /\ err_sends = 1
    /\ ok_sends = 1
    /\ result = "Ok"
    /\ Len(received) = 1
    /\ handed[1] # handed[2]

\* C20: a send call that fails for all destinations leaves the frame
\* counter as it was; the counter, and so the counter byte of every packet
\* sent, is the number of send calls that succeeded before, modulo 256.
C20_NoGaps ==
    /\ [](frame_counter = ok_sends % 256)
    /\ [][SendStep =>
            /\ bytes'[18] = ok_sends % 256
            /\ (result' = "Err" => /\ frame_counter' = frame_counter
                                   /\ ok_sends' = ok_sends)]_vars

\* After two failed calls and a wrap of the counter the packet carries 0.
C20_Witness ==
    /\ err_sends = 2
    /\ ok_sends = 257
    /\ result = "Ok"
    /\ bytes[18] = 0
    /\ frame_counter = 1

\* C12: the loop is left only from its head with the flag cleared or by a
\* receive on a disconnected empty channel; the head never starts a receive
\* with the flag cleared; at most one receive returns after the flag was
\* cleared, and the frames of its chunk are all still handed to send; once
\* the flag is cleared or the stream has ended the loop terminates, and after
\* that nothing is received or sent.
C12_Shutdown ==
    /\ [](recvs_after_stop <= 1)
    /\ [][(pc = "check" /\ pc' # pc) => pc' = IF running THEN "recv" ELSE "done"]_vars
    /\ [][(pc = "send" /\ pc' # pc) => frames' = <<>> /\ pc' = "check"]_vars
    /\ [][(pc' = "done" /\ pc # "done") =>
            \/ pc = "check" /\ ~running
            \/ pc = "recv" /\ ~connected /\ queue = <<>>]_vars
    /\ [][pc = "done" => /\ pc' = "done"
                         /\ received' = received
                         /\ handed' = handed]_vars
    /\ (~running ~> pc = "done")
    /\ (~connected ~> pc = "done")

\* The flag was cleared during a receive that then delivered a chunk of two
\* frames; both were sent and the loop has ended.
C12_Witness ==
    /\ pc = "done"
    /\ ~running
    /\ recvs_after_stop = 1
    /\ Len(handed) = 2
    /\ Len(received) >= 1

\* A step that is one call of push_samples.
PushStep == pushes' = pushes + 1

\* The window is below the silence threshold: every |sample| < 0.00001.
SilentWindow(w) ==
    \A i \in 1..Len(w) : Abs(w[i]) <= SampleUnit \div SILENCE_THRESHOLD_INV

\* The raw level of a window: 255 times its largest |sample|, at most 255.
RawLevel(w) ==
    LET m == CHOOSE a \in {Abs(w[i]) : i \in 1..Len(w)} :
                \A i \in 1..Len(w) : Abs(w[i]) <= a
    IN  IF m >= SampleUnit THEN 255 * SampleUnit ELSE 255 * m

\* The smoothed level after the first j of the windows ws, from level s0.
RECURSIVE SmoothedAfter(_, _, _)
SmoothedAfter(s0, ws, j) ==
    IF j = 0 THEN s0
    ELSE (SmoothedAfter(s0, ws, j - 1) * 7) \div 10 + (RawLevel(ws[j]) * 3) \div 10

\* C14: a window below the silence threshold gives a frame whose raw level,
\* beat flag, 16 bands, zero-crossing count, peak magnitude and peak
\* frequency are 0, and whose smoothed level is 0.7 times the previous
\* smoothed level plus 0.3 times this window's raw level.
C14_SilentFrame ==
    [][PushStep =>
        \A j \in 1..Len(last_frames') :
            SilentWindow(last_windows'[j]) =>
                /\ last_frames'[j].sample_raw = [sign |-> 0, exp |-> 0, mant |-> 0]
                /\ last_frames'[j].sample_peak = 0
                /\ last_frames'[j].fft_result = [i \in 1..16 |-> 0]
                /\ last_frames'[j].zero_crossing_count = 0
                /\ last_frames'[j].fft_magnitude = [sign |-> 0, exp |-> 0, mant |-> 0]
                /\ last_frames'[j].fft_major_peak = [sign |-> 0, exp |-> 0, mant |-> 0]
                /\ last_frames'[j].sample_smth
                     = f32_of(SmoothedAfter(sample_smth, last_windows', j))]_vars

\* After loud windows a window of tiny non-zero samples gave a frame of
\* zeros that still carries a smoothed level.
C14_Witness ==
    /\ frames_total = 3
    /\ Len(last_frames) = 2
    /\ SilentWindow(last_windows[2])
    /\ RawLevel(last_windows[2]) > 0
    /\ ~SilentWindow(last_windows[1])
    /\ last_frames[2].sample_raw = F32_ZERO
    /\ last_frames[2].sample_smth # F32_ZERO
    /\ sample_smth > 0

\* All samples pushed so far, in order: in SpecDsp every chunk is
\* Chunk(from, n, amp).
RECURSIVE StreamOf(_)
StreamOf(chunks) ==
    IF chunks = <<>> THEN <<>>
    ELSE LET c == chunks[Len(chunks)]
         IN  StreamOf(SubSeq(chunks, 1, Len(chunks) - 1)) \o Chunk(c.from, c.n, c.amp)

\* C18: after a push the buffer holds fewer than 2048 samples, at least 1024
\* if the push returned a frame; the buffer is the tail of all samples pushed,
\* and the k-th window processed (k from 0) is samples k*1024 .. k*1024+2047
\* of all samples pushed.
C18_Overlap ==
    LET all == StreamOf(pushed)
    IN  /\ Len(buffer) < 2048
        /\ last_frames # <<>> => Len(buffer) >= 1024
        /\ Len(all) = total_pushed
        /\ buffer = SubSeq(all, Len(all) - Len(buffer) + 1, Len(all))
        /\ Len(last_windows) = Len(last_frames)
        /\ \A j \in 1..Len(last_windows) :
              LET k == frames_total - Len(last_windows) + j - 1
              IN  last_windows[j] = SubSeq(all, k * 1024 + 1, k * 1024 + 2048)

\* A push of 3072 samples onto 1023 buffered ones processed two different
\* windows and left 2047 samples.
C18_Witness ==
    /\ pushes = 2
    /\ total_pushed = 4095
    /\ Len(last_windows) = 2
    /\ last_windows[1] # last_windows[2]
    /\ Len(buffer) = 2047

\* C16: the processor never fails, for any sample rate and any sequence of
\* pushes: the bass slice, the peak search and every band scan stay inside
\* the 1024 magnitudes.
C16_NeverFails == ~panicked

\* C17: for any sample rate the 17 bin edges are non-decreasing and at most
\* 1024, and the range scanned for band i, from edge i up to the smaller of
\* 1024 and the larger of edge i+1 and edge i + 1, holds at least one index.
C17_BandRanges ==
    /\ Len(bin_edges) = 17
    /\ \A i \in 1..16 : bin_edges[i] <= bin_edges[i + 1]
    /\ \A i \in 1..17 : bin_edges[i] <= 1024
    /\ \A i \in 1..16 :
          bin_edges[i] < Min(Max(bin_edges[i + 1], bin_edges[i] + 1), 1024)

\* A step that is one call of push_samples which processed exactly one
\* window, a window not below the silence threshold, without failing.
LoudWindowStep ==
    /\ PushStep
    /\ ~panicked'
    /\ Len(last_windows') = 1
    /\ Len(last_frames') = 1
    /\ ~SilentWindow(last_windows'[1])

\* The sum of f[x] over the finite set S.
RECURSIVE SumOver(_, _)
SumOver(f, S) ==
    IF S = {} THEN 0
    ELSE LET x == CHOOSE y \in S : TRUE IN f[x] + SumOver(f, S \ {x})

\* The bass energy of the spectrum fx: the sum of the squared magnitudes of
\* the bins from lo up to, not including, the smaller of hi and 1024.
BassEnergy(fx, lo, hi) ==
    LET B == {p \in fx : lo <= p.bin /\ p.bin < hi /\ p.bin < 1024}
    IN  SumOver([p \in B |-> p.mag * p.mag], B)

\* C15: for a window that is not silent the bass energy is written into the
\* 50-slot history at the write position, the position advances modulo 50,
\* and the beat flag is 1 exactly if the energy exceeds 1.20 times the mean
\* of all 50 slots after the write (slots never written count as 0).
C15_BeatFlag ==
    [][LoudWindowStep =>
        LET energy == BassEnergy(last_fx', beat_freq_lo, beat_freq_hi)
            total  == SumOver(beat_history', 1..50)
        IN  /\ beat_history' = [beat_history EXCEPT ![beat_idx + 1] = energy]
            /\ beat_idx' = (beat_idx + 1) % 50
            /\ last_frames'[1].sample_peak \in {0, 1}
            /\ last_frames'[1].sample_peak = 1 <=> energy * 50 * 5 > total * 6]_vars

\* The history has wrapped: the 51st loud window overwrote the first slot
\* with a stronger bass line and raised the beat flag, although the flag
\* had fallen to 0 while the history filled up.
C15_Witness ==
    /\ pushes = 52
    /\ frames_total = 51
    /\ beat_idx = 1
    /\ \A i \in 1..50 : beat_history[i] > 0
    /\ beat_history[1] > beat_history[2]
    /\ last_frames[1].sample_peak = 1

\* The raw value of band i of the spectrum fx: the largest value of the bins
\* of the band, 0 for a band without bins.
RawBand(fx, edges, i) ==
    LET lo == edges[i]
        hi == Min(Max(edges[i + 1], lo + 1), 1024)
        V  == {bin_value(p.mag) : p \in {q \in fx : lo <= q.bin /\ q.bin < hi}}
    IN  IF V = {} THEN 0 ELSE CHOOSE m \in V : \A v \in V : v <= m

\* C19: for a window that is not silent each band is
\* clamp(((raw - floor) / span) * 255, 0, 255) with
\* span = max(ceiling - floor, 1.0), floor and ceiling being the AGC values
\* after this window's update.
C19_Normalize ==
    [][LoudWindowStep =>
        LET span == IF agc_max' - agc_min' > BinUnit
                    THEN agc_max' - agc_min' ELSE BinUnit
        IN  \A i \in 1..16 :
                LET raw == RawBand(last_fx', bin_edges, i)
                    n   == ((raw - agc_min') * 255) \div span
                IN  last_frames'[1].fft_result[i]
                      = IF n < 0 THEN 0 ELSE IF n > 255 THEN 255 ELSE n]_vars

\* The AGC floor has risen to within 1.0 of the ceiling, so the span is the
\* guard value 1.0, and a band lies strictly between 0 and 255.
C19_Witness ==
    /\ last_frames # <<>>
    /\ agc_min > 0
    /\ agc_max - agc_min < BinUnit
    /\ \E i \in 1..16 : last_frames[1].fft_result[i] \in 1..254

\* A step that is one call of push_samples which processed exactly one
\* window, a window below the silence threshold.
SilentWindowStep ==
    /\ PushStep
    /\ Len(last_windows') = 1
    /\ SilentWindow(last_windows'[1])

\* C21: processing a silent window changes only the smoothed level: the AGC
\* floor and ceiling, the 50-slot beat history and its write position (and
\* the values fixed at construction) are left exactly as they were.
C21_SilenceKeepsState ==
    [][SilentWindowStep =>
        /\ agc_min' = agc_min
        /\ agc_max' = agc_max
        /\ beat_history' = beat_history
        /\ beat_idx' = beat_idx
        /\ bin_edges' = bin_edges
        /\ beat_freq_lo' = beat_freq_lo
        /\ beat_freq_hi' = beat_freq_hi
        /\ sample_rate' = sample_rate
        /\ sample_smth' = (sample_smth * 7) \div 10
                          + (RawLevel(last_windows'[1]) * 3) \div 10]_vars

\* Two loud windows have moved the AGC ceiling and filled two slots of the
\* beat history; the silent window after them has lowered the smoothed
\* level and left the ceiling, the two slots and the write position alone.
C21_Witness ==
    /\ pushes = 4
    /\ frames_total = 3
    /\ Len(last_windows) = 1
    /\ SilentWindow(last_windows[1])
    /\ last_frames[1].fft_result = [i \in 1..16 |-> 0]
    /\ beat_idx = 2
    /\ beat_history[1] > 0
    /\ beat_history[2] > 0
    /\ agc_max > BinUnit
    /\ sample_smth > 0

=============================================================================
